---- MODULE Spec2Model ----
(***************************************************************************)
(* Model of the quaternion library src/src/lib.rs.                         *)
(*                                                                         *)
(* The library is generic over T: Float; its tests instantiate it at f32   *)
(* and f64.  The model instantiates T at IEEE 754 binary32 (f32), as       *)
(* test_axis_angle and test_rotation_from_to_1 do.  A finite f32 value is  *)
(* the pair <<m, e>> standing for m * 2^e, kept canonical: m is odd, or    *)
(* m = 0 and e = 0, and |m| < 2^24.  Every arithmetic operation computes   *)
(* the exact result and rounds it to 24 significant bits, ties to even,    *)
(* which is what the hardware does.  The exponent range (overflow,         *)
(* subnormals) is outside the model: no value the model computes comes     *)
(* near its ends.  A division by zero gives the model's one non-finite     *)
(* value, NaN.                                                             *)
(***************************************************************************)
EXTENDS Integers

\* ------------------------------------------------------------------ f32

\* Significand precision of f32 in bits, and the limb base 2^24.
MantBits == 24

Base == 2 ^ MantBits

\* Half limb 2^12, used to multiply two 24-bit significands in 32-bit steps.
HalfBase == 2 ^ (MantBits \div 2)

Pow2(n) == 2 ^ n

AbsInt(n) == IF n < 0 THEN -n ELSE n

SignInt(n) == IF n < 0 THEN -1 ELSE IF n > 0 THEN 1 ELSE 0

RECURSIVE BitLen(_)
BitLen(n) == IF n = 0 THEN 0 ELSE 1 + BitLen(n \div 2)

\* The canonical pair for m * 2^e.
RECURSIVE Canon(_, _)
Canon(m, e) ==
    IF m = 0 THEN <<0, 0>>
    ELSE IF m % 2 = 0 THEN Canon(m \div 2, e + 1)
    ELSE <<m, e>>

\* sign * (hi * 2^24 + lo) * 2^e rounded to 24 significant bits, ties to
\* even.  sticky says that the exact value lies strictly above the integer
\* given (a nonzero remainder of a division or a square root).
RoundWide(sign, hi, lo, e, sticky) ==
    LET L == IF hi = 0 THEN BitLen(lo) ELSE MantBits + BitLen(hi)
        k == L - MantBits
    IN  IF k <= 0 THEN Canon(sign * lo, e)
        ELSE
          LET kk   == k - MantBits
              q    == IF k <= MantBits
                      THEN hi * Pow2(MantBits - k) + (lo \div Pow2(k))
                      ELSE hi \div Pow2(kk)
              r    == IF k <= MantBits
                      THEN lo % Pow2(k)
                      ELSE (hi % Pow2(kk)) * Base + lo
              half == Pow2(k - 1)
              up   == \/ r > half
                      \/ r = half /\ (sticky \/ q % 2 = 1)
          IN  Canon(sign * (IF up THEN q + 1 ELSE q), e + k)

FromInt(n) == Canon(n, 0)

\* The one non-finite value of the model: x / 0 and whatever is computed
\* from it.  (1 / 0 is +Inf in IEEE 754; the library only ever multiplies it
\* by 0, which is NaN.)  It is not a canonical pair, so it equals no number.
NaN == <<0, 1>>

IsNaN(x) == x = NaN

FNeg(x) == IF IsNaN(x) THEN NaN ELSE <<-x[1], x[2]>>

FAbs(x) == IF IsNaN(x) THEN NaN ELSE <<AbsInt(x[1]), x[2]>>

\* x * y
FMul(x, y) ==
    IF IsNaN(x) \/ IsNaN(y) THEN NaN ELSE
    LET a   == AbsInt(x[1])
        b   == AbsInt(y[1])
        ah  == a \div HalfBase
        al  == a % HalfBase
        bh  == b \div HalfBase
        bl  == b % HalfBase
        mid == ah * bl + al * bh
        lo0 == (mid % HalfBase) * HalfBase + al * bl
        hi  == ah * bh + (mid \div HalfBase) + (lo0 \div Base)
    IN  RoundWide(SignInt(x[1]) * SignInt(y[1]), hi, lo0 % Base,
                  x[2] + y[2], FALSE)

\* n * 2^s as the wide number <<hi, lo>>, for n < 2^24.
ShiftW(n, s) ==
    IF s <= MantBits
    THEN <<n \div Pow2(MantBits - s), (n % Pow2(MantBits - s)) * Pow2(s)>>
    ELSE <<n * Pow2(s - MantBits), 0>>

WideLess(u, v) == u[1] < v[1] \/ (u[1] = v[1] /\ u[2] < v[2])

WideAdd(u, v) ==
    LET lo == u[2] + v[2]
    IN  <<u[1] + v[1] + (lo \div Base), lo % Base>>

\* u - v for u >= v
WideSub(u, v) ==
    IF u[2] >= v[2] THEN <<u[1] - v[1], u[2] - v[2]>>
    ELSE <<u[1] - v[1] - 1, u[2] + Base - v[2]>>

\* x + y
FAdd(x, y) ==
    IF IsNaN(x) \/ IsNaN(y) THEN NaN
    ELSE IF x[1] = 0 THEN y
    ELSE IF y[1] = 0 THEN x
    ELSE
      LET topx == x[2] + BitLen(AbsInt(x[1]))
          topy == y[2] + BitLen(AbsInt(y[1]))
      IN  \* the smaller operand lies below a quarter ulp of the larger
          IF topx - topy >= MantBits + 2 THEN x
          ELSE IF topy - topx >= MantBits + 2 THEN y
          ELSE
            LET e  == IF x[2] < y[2] THEN x[2] ELSE y[2]
                wx == ShiftW(AbsInt(x[1]), x[2] - e)
                wy == ShiftW(AbsInt(y[1]), y[2] - e)
                sx == SignInt(x[1])
                sy == SignInt(y[1])
            IN  IF sx = sy
                THEN LET w == WideAdd(wx, wy)
                     IN  RoundWide(sx, w[1], w[2], e, FALSE)
                ELSE IF WideLess(wx, wy)
                THEN LET w == WideSub(wy, wx)
                     IN  RoundWide(sy, w[1], w[2], e, FALSE)
                ELSE LET w == WideSub(wx, wy)
                     IN  RoundWide(sx, w[1], w[2], e, FALSE)

\* x - y
FSub(x, y) == FAdd(x, FNeg(y))

\* x < y and x >= y: rounding never changes the sign of a difference, and
\* every comparison with NaN is false.
FLess(x, y) == ~IsNaN(x) /\ ~IsNaN(y) /\ FSub(x, y)[1] < 0

FGeq(x, y) == ~IsNaN(x) /\ ~IsNaN(y) /\ FSub(x, y)[1] >= 0

\* k more quotient bits of r / d by shift and subtract: <<quotient, remainder>>
RECURSIVE DivBits(_, _, _, _)
DivBits(q, r, d, k) ==
    IF k = 0 THEN <<q, r>>
    ELSE IF 2 * r >= d THEN DivBits(2 * q + 1, 2 * r - d, d, k - 1)
    ELSE DivBits(2 * q, 2 * r, d, k - 1)

\* x / y
FDiv(x, y) ==
    IF IsNaN(x) \/ IsNaN(y) \/ y[1] = 0 THEN NaN
    ELSE IF x[1] = 0 THEN <<0, 0>>
    ELSE
      LET n  == AbsInt(x[1])
          d  == AbsInt(y[1])
          sn == MantBits - BitLen(n)
          sd == MantBits - BitLen(d)
          nn == n * Pow2(sn)
          dn == d * Pow2(sd)
          qr == DivBits(nn \div dn, nn % dn, dn, MantBits + 1)
      IN  RoundWide(SignInt(x[1]) * SignInt(y[1]),
                    qr[1] \div Base, qr[1] % Base,
                    (x[2] - sn) - (y[2] - sd) - (MantBits + 1),
                    qr[2] # 0)

RECURSIVE ISqrt(_)
ISqrt(n) ==
    IF n < 2 THEN n
    ELSE LET s == 2 * ISqrt(n \div 4)
         IN  IF (s + 1) * (s + 1) <= n THEN s + 1 ELSE s

\* More bits of a square root, two (zero) bits of the radicand at a time,
\* until the root has 26 bits: enough to round it to 24.
RECURSIVE SqrtBits(_, _, _)
SqrtBits(root, rem, e) ==
    IF root >= Pow2(MantBits + 1)
    THEN RoundWide(1, root \div Base, root % Base, e, rem # 0)
    ELSE IF 4 * rem >= 4 * root + 1
    THEN SqrtBits(2 * root + 1, 4 * rem - (4 * root + 1), e - 1)
    ELSE SqrtBits(2 * root, 4 * rem, e - 1)

\* sqrt(x)
FSqrt(x) ==
    IF IsNaN(x) \/ x[1] < 0 THEN NaN
    ELSE IF x[1] = 0 THEN <<0, 0>>
    ELSE
      LET odd == x[2] % 2 = 1
          n   == IF odd THEN 2 * x[1] ELSE x[1]
          e   == IF odd THEN x[2] - 1 ELSE x[2]
          r   == ISqrt(n)
      IN  IF r * r = n THEN Canon(r, e \div 2)
          ELSE SqrtBits(r, n - r * r, e \div 2)


\* ------------------------------------------------- constants of type T

\* T::zero(), T::one()
Zero == FromInt(0)

One == FromInt(1)

\* T::from_f64(-0.999999): the f32 nearest to -0.999999
AntiParallelThreshold == <<-16777199, -24>>

\* T::from_f64(PI): the f32 nearest to pi, 3.1415927
PI == <<13176795, -22>>

\* static EPSILON: f32 = 0.00001
EPSILON == <<2748779, -38>>

\* ---------------------------------------------------------- sin and cos

\* f32::sin and f32::cos are the platform's sinf and cosf, accurate to one
\* unit in the last place but not specified to round correctly.  A row is
\* <<x, c0, c1, s0, s1>>: c0 and c1 are the two f32 values bracketing
\* cos(x), s0 and s1 those bracketing sin(x) (equal when it is an f32).
TrigTable ==
    { <<<<-5, -1>>, <<-210015, -18>>, <<-13440959, -24>>, <<-10040697, -24>>, <<-1255087, -21>>>>,
      <<<<-1, 1>>, <<-13963571, -25>>, <<-6981785, -24>>, <<-1906935, -21>>, <<-15255479, -24>>>>,
      <<<<-3, -1>>, <<4747093, -26>>, <<9494187, -27>>, <<-16735189, -24>>, <<-4183797, -22>>>>,
      <<<<-1, 0>>, <<141637, -18>>, <<9064769, -24>>, <<-14117541, -24>>, <<-3529385, -22>>>>,
      <<<<-1, -1>>, <<230053, -18>>, <<14723393, -24>>, <<-4021713, -23>>, <<-16086851, -25>>>>,
      <<<<0, 0>>, <<1, 0>>, <<1, 0>>, <<0, 0>>, <<0, 0>>>>,
      <<<<1, -1>>, <<230053, -18>>, <<14723393, -24>>, <<16086851, -25>>, <<4021713, -23>>>>,
      <<<<1, 0>>, <<141637, -18>>, <<9064769, -24>>, <<3529385, -22>>, <<14117541, -24>>>>,
      <<<<3, -1>>, <<4747093, -26>>, <<9494187, -27>>, <<4183797, -22>>, <<16735189, -24>>>>,
      <<<<1, 1>>, <<-13963571, -25>>, <<-6981785, -24>>, <<15255479, -24>>, <<1906935, -21>>>>,
      <<<<5, -1>>, <<-210015, -18>>, <<-13440959, -24>>, <<1255087, -21>>, <<10040697, -24>>>>,
      <<<<13176795, -23>>, <<-12303663, -48>>, <<-6151831, -47>>, <<16777215, -24>>, <<1, 0>>>>,
      <<<<-13176795, -23>>, <<-12303663, -48>>, <<-6151831, -47>>, <<-1, 0>>, <<-16777215, -24>>>>,
      <<<<13176795, -24>>, <<5931641, -23>>, <<11863283, -24>>, <<11863283, -24>>, <<2965821, -22>>>>,
      <<<<13176795, -22>>, <<-1, 0>>, <<-16777215, -24>>, <<-12303663, -47>>, <<-6151831, -46>>>>,
      <<<<1, -2>>, <<4063913, -22>>, <<16255653, -24>>, <<8301499, -25>>, <<16602999, -26>>>>,
      <<<<-1, -2>>, <<4063913, -22>>, <<16255653, -24>>, <<-16602999, -26>>, <<-8301499, -25>>>> }

TrigRow(x) ==
    IF IsNaN(x) THEN <<NaN, NaN, NaN, NaN, NaN>>
    ELSE CHOOSE r \in TrigTable : r[1] = x

\* The values x.cos() may return, and those x.sin() may return.
FCos(x) == {TrigRow(x)[2], TrigRow(x)[3]}

FSin(x) == {TrigRow(x)[4], TrigRow(x)[5]}

\* -------------------------------------------------------------- vecmath
\* A vector [T; 3] is a tuple <<x, y, z>>: a[0] of the source is a[1] here.

vec3_scale(a, b) == <<FMul(a[1], b), FMul(a[2], b), FMul(a[3], b)>>

vec3_add(a, b) == <<FAdd(a[1], b[1]), FAdd(a[2], b[2]), FAdd(a[3], b[3])>>

vec3_dot(a, b) ==
    FAdd(FAdd(FMul(a[1], b[1]), FMul(a[2], b[2])), FMul(a[3], b[3]))

vec3_square_len(a) ==
    FAdd(FAdd(FMul(a[1], a[1]), FMul(a[2], a[2])), FMul(a[3], a[3]))

vec3_cross(a, b) ==
    << FSub(FMul(a[2], b[3]), FMul(a[3], b[2])),
       FSub(FMul(a[3], b[1]), FMul(a[1], b[3])),
       FSub(FMul(a[1], b[2]), FMul(a[2], b[1])) >>

vec3_len(a) == FSqrt(vec3_square_len(a))

vec3_inv_len(a) == FDiv(One, vec3_len(a))

vec3_normalized(a) == vec3_scale(a, vec3_inv_len(a))

\* ----------------------------------------------------------- quaternion
\* A Quaternion<T> = (T, [T; 3]) is a pair <<w, <<x, y, z>>>>: a.0 of the
\* source is a[1] here, a.1[0] is a[2][1].

id == <<One, <<Zero, Zero, Zero>>>>

add(a, b) ==
    << FAdd(a[1], b[1]),
       << FAdd(a[2][1], b[2][1]),
          FAdd(a[2][2], b[2][2]),
          FAdd(a[2][3], b[2][3]) >> >>

scale(q, t) ==
    <<FMul(q[1], t), <<FMul(q[2][1], t), FMul(q[2][2], t), FMul(q[2][3], t)>>>>

dot(a, b) ==
    LET v_total == FAdd(FAdd(FMul(a[2][1], b[2][1]), FMul(a[2][2], b[2][2])),
                        FMul(a[2][3], b[2][3]))
    IN  FAdd(FMul(a[1], b[1]), v_total)

\* mul with the cross product's sign reversed (a left-handed product).
mul_left_handed(a, b) ==
    << FSub(FSub(FSub(FMul(a[1], b[1]), FMul(a[2][1], b[2][1])),
                 FMul(a[2][2], b[2][2])),
            FMul(a[2][3], b[2][3])),
       << FAdd(FSub(FAdd(FMul(a[1], b[2][1]), FMul(a[2][1], b[1])),
                    FMul(a[2][2], b[2][3])),
               FMul(a[2][3], b[2][2])),
          FSub(FAdd(FAdd(FMul(a[1], b[2][2]), FMul(a[2][1], b[2][3])),
                    FMul(a[2][2], b[1])),
               FMul(a[2][3], b[2][1])),
          FAdd(FAdd(FSub(FMul(a[1], b[2][3]), FMul(a[2][1], b[2][2])),
                    FMul(a[2][2], b[2][1])),
               FMul(a[2][3], b[1])) >> >>

\* mul with an index slip in c.1[2]: a.0 * b.1[1] for a.0 * b.1[2].
mul_index_slip(a, b) ==
    << FSub(FSub(FSub(FMul(a[1], b[1]), FMul(a[2][1], b[2][1])),
                 FMul(a[2][2], b[2][2])),
            FMul(a[2][3], b[2][3])),
       << FSub(FAdd(FAdd(FMul(a[1], b[2][1]), FMul(a[2][1], b[1])),
                    FMul(a[2][2], b[2][3])),
               FMul(a[2][3], b[2][2])),
          FAdd(FAdd(FSub(FMul(a[1], b[2][2]), FMul(a[2][1], b[2][3])),
                    FMul(a[2][2], b[1])),
               FMul(a[2][3], b[2][1])),
          FAdd(FSub(FAdd(FMul(a[1], b[2][2]), FMul(a[2][1], b[2][2])),
                    FMul(a[2][2], b[2][1])),
               FMul(a[2][3], b[1])) >> >>

\* mul with the scalar part's dot product added instead of subtracted.
mul_scalar_plus(a, b) ==
    << FAdd(FAdd(FAdd(FMul(a[1], b[1]), FMul(a[2][1], b[2][1])),
                 FMul(a[2][2], b[2][2])),
            FMul(a[2][3], b[2][3])),
       << FSub(FAdd(FAdd(FMul(a[1], b[2][1]), FMul(a[2][1], b[1])),
                    FMul(a[2][2], b[2][3])),
               FMul(a[2][3], b[2][2])),
          FAdd(FAdd(FSub(FMul(a[1], b[2][2]), FMul(a[2][1], b[2][3])),
                    FMul(a[2][2], b[1])),
               FMul(a[2][3], b[2][1])),
          FAdd(FSub(FAdd(FMul(a[1], b[2][3]), FMul(a[2][1], b[2][2])),
                    FMul(a[2][2], b[2][1])),
               FMul(a[2][3], b[1])) >> >>

mul(a, b) ==
    << FSub(FSub(FSub(FMul(a[1], b[1]), FMul(a[2][1], b[2][1])),
                 FMul(a[2][2], b[2][2])),
            FMul(a[2][3], b[2][3])),
       << FSub(FAdd(FAdd(FMul(a[1], b[2][1]), FMul(a[2][1], b[1])),
                    FMul(a[2][2], b[2][3])),
               FMul(a[2][3], b[2][2])),
          FAdd(FAdd(FSub(FMul(a[1], b[2][2]), FMul(a[2][1], b[2][3])),
                    FMul(a[2][2], b[1])),
               FMul(a[2][3], b[2][1])),
          FAdd(FSub(FAdd(FMul(a[1], b[2][3]), FMul(a[2][1], b[2][2])),
                    FMul(a[2][2], b[2][1])),
               FMul(a[2][3], b[1])) >> >>

\* conj that forgets to negate the last component.
conj_partial(a) == <<a[1], <<FNeg(a[2][1]), FNeg(a[2][2]), a[2][3]>>>>

conj(a) == <<a[1], <<FNeg(a[2][1]), FNeg(a[2][2]), FNeg(a[2][3])>>>>

\* square_len without the last component.
square_len_short(q) ==
    FAdd(FAdd(FMul(q[1], q[1]), FMul(q[2][1], q[2][1])),
         FMul(q[2][2], q[2][2]))

square_len(q) ==
    FAdd(FAdd(FAdd(FMul(q[1], q[1]), FMul(q[2][1], q[2][1])),
              FMul(q[2][2], q[2][2])),
         FMul(q[2][3], q[2][3]))

len(q) == FSqrt(square_len(q))

\* rotate_vector multiplying by q on the right instead of its conjugate.
rotate_product_no_conj(q, v) ==
    LET v_as_q == <<Zero, v>>
    IN  mul(mul(q, v_as_q), q)

\* mul(mul(q, v_as_q), conj): rotate_vector returns its vector part.
rotate_product(q, v) ==
    LET v_as_q == <<Zero, v>>
    IN  mul(mul(q, v_as_q), conj(q))

rotate_vector(q, v) == rotate_product(q, v)[2]

\* axis_angle with the sine in the scalar part too.
axis_angle_sin_twice(v, theta) ==
    LET two        == FAdd(One, One)
        half_theta == FDiv(theta, two)
    IN  { <<c, vec3_scale(v, s)>> : c \in FSin(half_theta), s \in FSin(half_theta) }

\* The quaternions axis_angle(v, theta) may return: one for each value
\* cos and sin may return.
axis_angle(v, theta) ==
    LET two        == FAdd(One, One)
        half_theta == FDiv(theta, two)
    IN  { <<c, vec3_scale(v, s)>> : c \in FCos(half_theta), s \in FSin(half_theta) }

\* rotation_from_to, local by local.  rft_dot is its `dot`.
rft_dot(a, b) == vec3_dot(vec3_normalized(a), vec3_normalized(b))

\* "parallel" (return id()), "antiparallel" (the if branch) or "general".
rft_branch(a, b) ==
    IF FGeq(rft_dot(a, b), One) THEN "parallel"
    ELSE IF FLess(rft_dot(a, b), AntiParallelThreshold) THEN "antiparallel"
    ELSE "general"

\* The axis without the fallback to the Y axis.
rft_axis_no_fallback(a) == vec3_cross(<<One, Zero, Zero>>, a)

\* The axis of the antiparallel branch before it is normalized; a is the
\* normalized a.
rft_axis(a) ==
    LET axis == vec3_cross(<<One, Zero, Zero>>, a)
    IN  IF vec3_square_len(axis) = Zero
        THEN vec3_cross(<<Zero, One, Zero>>, a)
        ELSE axis

\* rotation_from_to scaling by len(q) instead of one / len(q).
rotation_from_to_no_inverse(a0, b0) ==
    LET a == vec3_normalized(a0)
        b == vec3_normalized(b0)
        d == vec3_dot(a, b)
    IN  IF FGeq(d, One) THEN {id}
        ELSE IF FLess(d, AntiParallelThreshold)
        THEN axis_angle(vec3_normalized(rft_axis(a)), PI)
        ELSE LET q == <<FAdd(One, d), vec3_cross(a, b)>>
             IN  {scale(q, len(q))}

\* The quaternions rotation_from_to(a, b) may return.
rotation_from_to(a0, b0) ==
    LET a == vec3_normalized(a0)
        b == vec3_normalized(b0)
        d == vec3_dot(a, b)
    IN  IF FGeq(d, One) THEN {id}
        ELSE IF FLess(d, AntiParallelThreshold)
        THEN axis_angle(vec3_normalized(rft_axis(a)), PI)
        ELSE LET q == <<FAdd(One, d), vec3_cross(a, b)>>
             IN  {scale(q, FDiv(One, len(q)))}

\* ------------------------------------------------------- state machine
\* A client calls one function of the library at a time.  call names the
\* function, args holds its arguments and ret what it returned; branch and
\* axis are rotation_from_to's path and the local `axis` of its antiparallel
\* branch before normalization.

VARIABLES call, args, ret, branch, axis

vars == <<call, args, ret, branch, axis>>

\* Bounds of the inputs: integer inputs are scaled by 1..MaxScale, integer
\* angles range over -MaxAngle..MaxAngle.
MaxScale == 2

MaxAngle == 3

Scales == 1..MaxScale

F(m, e) == <<m, e>>

QInt(w, x, y, z) == <<FromInt(w), <<FromInt(x), FromInt(y), FromInt(z)>>>>

VInt(x, y, z) == <<FromInt(x), FromInt(y), FromInt(z)>>

\* f32 literals: 0.5, 0.6, 0.8, 0.36, 0.48, 0.1, 0.2, 0.3, 2^-11
Half == F(1, -1)

P6 == F(5033165, -23)

P8 == F(13421773, -24)

P36 == F(3019899, -23)

P48 == F(16106127, -25)

P1 == F(13421773, -27)

P2 == F(13421773, -26)

P3 == F(5033165, -24)

Tiny == F(1, -11)

\* Integer quaternions; (2, [1,1,1]) and (3, [1,1,1]) are test_mul's.
IntQuats ==
    { QInt(1, 0, 0, 0), QInt(0, 1, 0, 0), QInt(0, 0, 1, 0), QInt(0, 0, 0, 1),
      QInt(2, 1, 1, 1), QInt(3, 1, 1, 1), QInt(1, 2, -1, 3), QInt(-1, 0, 2, 1) }

\* A unit quaternion with no special structure:
\* (0.66606534, [-0.046811629, 0.27530187, -0.69164622])
GenericUnit ==
    <<F(5587361, -23), <<F(-12565901, -28), F(4618799, -24), F(-5801949, -23)>>>>

\* cos(pi/4) = sin(pi/4) in f32, 0.70710677
Sqrt12 == F(11863283, -24)

\* Unit quaternions: square_len is 1 in f32 arithmetic, but for the last,
\* the quarter turn about z, where it is 1 - 2^-24.
UnitQuats ==
    { QInt(1, 0, 0, 0), QInt(-1, 0, 0, 0), QInt(0, 1, 0, 0), QInt(0, 0, -1, 0),
      QInt(0, 0, 0, 1),
      <<Half, <<Half, Half, Half>>>>,
      <<Half, <<FNeg(Half), Half, FNeg(Half)>>>>,
      <<P6, <<P8, Zero, Zero>>>>,
      <<P36, <<P48, P8, Zero>>>>,
      <<P8, <<Zero, FNeg(P36), P48>>>>,
      GenericUnit,
      <<Sqrt12, <<Zero, Zero, Sqrt12>>>> }

\* Quaternions with inexact products.
FracQuats ==
    { <<P1, <<P2, P3, P6>>>>, <<P6, <<P8, Zero, P1>>>>, <<P3, <<P1, P2, P8>>>> }

QuatInputs ==
    { scale(q, FromInt(k)) : q \in IntQuats, k \in Scales }
        \cup UnitQuats \cup FracQuats

TripleInputs ==
    { scale(q, FromInt(k)) :
        q \in {QInt(1, 0, 0, 0), QInt(2, 1, 1, 1), QInt(1, 2, -1, 3)},
        k \in Scales }
        \cup { <<Half, <<Half, Half, Half>>>>, GenericUnit }
        \cup FracQuats

ScalarInputs == { FromInt(k) : k \in -MaxScale..MaxScale } \cup {FromInt(5), Half, P1}

IntVecs ==
    { VInt(1, 0, 0), VInt(-1, 0, 0), VInt(0, 1, 0), VInt(0, 0, 1),
      VInt(0, 0, -1), VInt(1, 1, 1), VInt(-1, -1, -1), VInt(1, 2, 2),
      VInt(2, 1, 2), VInt(-2, -1, -2), VInt(3, 4, 0), VInt(1, 2, 3) }

\* Nonzero vectors; the last two are nearly but not exactly opposite.
VecInputs ==
    { vec3_scale(v, FromInt(k)) : v \in IntVecs, k \in Scales }
        \cup { <<P1, P2, P3>>, <<One, Tiny, Zero>>, <<FNeg(One), Tiny, Zero>> }

\* Axes: unit vectors, normalized vectors (test_axis_angle normalizes
\* [1,1,1]) and one that is not normalized.
AxisInputs ==
    { VInt(1, 0, 0), VInt(0, 1, 0), VInt(0, 0, -1), <<P6, P8, Zero>>,
      vec3_normalized(VInt(1, 1, 1)), vec3_normalized(VInt(1, 2, 2)),
      vec3_normalized(VInt(1, -2, 3)), VInt(1, 1, 1) }

AngleInputs ==
    { FromInt(k) : k \in -MaxAngle..MaxAngle }
        \cup { PI, FNeg(PI), FDiv(PI, FromInt(2)), FMul(PI, FromInt(2)), Half }

Init ==
    /\ call = "idle"
    /\ args = <<>>
    /\ ret = <<>>
    /\ branch = "none"
    /\ axis = <<>>

\* id()
CallId ==
    /\ call = "idle"
    /\ call' = "id"
    /\ args' = <<>>
    /\ ret' = id
    /\ UNCHANGED <<branch, axis>>

\* add(a, b)
CallAdd ==
    /\ call = "idle"
    /\ \E a \in QuatInputs, b \in QuatInputs :
        /\ args' = <<a, b>>
        /\ ret' = add(a, b)
    /\ call' = "add"
    /\ UNCHANGED <<branch, axis>>

\* scale(q, t)
CallScale ==
    /\ call = "idle"
    /\ \E q \in QuatInputs, t \in ScalarInputs :
        /\ args' = <<q, t>>
        /\ ret' = scale(q, t)
    /\ call' = "scale"
    /\ UNCHANGED <<branch, axis>>

\* dot(a, b)
CallDot ==
    /\ call = "idle"
    /\ \E a \in QuatInputs, b \in QuatInputs :
        /\ args' = <<a, b>>
        /\ ret' = dot(a, b)
    /\ call' = "dot"
    /\ UNCHANGED <<branch, axis>>

\* mul(a, b)
CallMul ==
    /\ call = "idle"
    /\ \E a \in QuatInputs, b \in QuatInputs :
        /\ args' = <<a, b>>
        /\ ret' = mul(a, b)
    /\ call' = "mul"
    /\ UNCHANGED <<branch, axis>>

\* conj(a)
CallConj ==
    /\ call = "idle"
    /\ \E a \in QuatInputs :
        /\ args' = <<a>>
        /\ ret' = conj(a)
    /\ call' = "conj"
    /\ UNCHANGED <<branch, axis>>

\* square_len(q)
CallSquareLen ==
    /\ call = "idle"
    /\ \E q \in QuatInputs :
        /\ args' = <<q>>
        /\ ret' = square_len(q)
    /\ call' = "square_len"
    /\ UNCHANGED <<branch, axis>>

\* len(q)
CallLen ==
    /\ call = "idle"
    /\ \E q \in QuatInputs :
        /\ args' = <<q>>
        /\ ret' = len(q)
    /\ call' = "len"
    /\ UNCHANGED <<branch, axis>>

\* rotate_vector(q, v)
CallRotateVector ==
    /\ call = "idle"
    /\ \E q \in QuatInputs, v \in VecInputs :
        /\ args' = <<q, v>>
        /\ ret' = rotate_vector(q, v)
    /\ call' = "rotate_vector"
    /\ UNCHANGED <<branch, axis>>

\* axis_angle(v, theta)
CallAxisAngle ==
    /\ call = "idle"
    /\ \E v \in AxisInputs, theta \in AngleInputs :
        /\ args' = <<v, theta>>
        /\ ret' \in axis_angle(v, theta)
    /\ call' = "axis_angle"
    /\ UNCHANGED <<branch, axis>>

\* rotation_from_to(a, b)
CallRotationFromTo ==
    /\ call = "idle"
    /\ \E a \in VecInputs, b \in VecInputs :
        /\ args' = <<a, b>>
        /\ ret' \in rotation_from_to(a, b)
        /\ branch' = rft_branch(a, b)
        /\ axis' = IF rft_branch(a, b) = "antiparallel"
                   THEN rft_axis(vec3_normalized(a))
                   ELSE <<>>
    /\ call' = "rotation_from_to"

\* A client composing three rotations: mul(mul(a, b), c).
CallMulMul ==
    /\ call = "idle"
    /\ \E a \in TripleInputs, b \in TripleInputs, c \in TripleInputs :
        /\ args' = <<a, b, c>>
        /\ ret' = mul(mul(a, b), c)
    /\ call' = "mul_mul"
    /\ UNCHANGED <<branch, axis>>

\* The call returns: every call is independent of the ones before it.
Return ==
    /\ call # "idle"
    /\ call' = "idle"
    /\ args' = <<>>
    /\ ret' = <<>>
    /\ branch' = "none"
    /\ axis' = <<>>

Next ==
    \/ CallId
    \/ CallAdd
    \/ CallScale
    \/ CallDot
    \/ CallMul
    \/ CallConj
    \/ CallSquareLen
    \/ CallLen
    \/ CallRotateVector
    \/ CallAxisAngle
    \/ CallRotationFromTo
    \/ CallMulMul
    \/ Return

Spec == Init /\ [][Next]_vars

\* --------------------------------------------------------------- claims

\* (x - y).abs() < EPSILON, the comparison of the tests
Close(x, y) == FLess(FAbs(FSub(x, y)), EPSILON)

\* |x - y| <= EPSILON * s: agreement to within rounding at magnitude s
CloseAt(x, y, s) == FGeq(FMul(EPSILON, s), FAbs(FSub(x, y)))

QCloseAt(p, q, s) ==
    /\ CloseAt(p[1], q[1], s)
    /\ \A i \in 1..3 : CloseAt(p[2][i], q[2][i], s)

\* x is 1 to within four units in the last place (2^-21): what a unit
\* length is in f32, where vec3_normalized and axis_angle round.
NearOne(x) == FGeq(F(1, -21), FAbs(FSub(x, One)))

\* Every component is an integer: with the inputs' magnitudes, every
\* product and sum of such components is computed without rounding.
IsIntQuat(q) == q[1][2] >= 0 /\ \A i \in 1..3 : q[2][i][2] >= 0

IsUnitQuat(q) == NearOne(square_len(q))

IsUnitVec(v) == NearOne(vec3_square_len(v))

ZeroVec == <<Zero, Zero, Zero>>

\* The Hamilton product put together from the scalar and vector parts with
\* vecmath's dot, cross, scale and add, as test_mul builds its expectation.
hamilton_product(q0, q1) ==
    << FSub(FMul(q0[1], q1[1]), vec3_dot(q0[2], q1[2])),
       vec3_add(vec3_cross(q0[2], q1[2]),
                vec3_add(vec3_scale(q1[2], q0[1]), vec3_scale(q0[2], q1[1]))) >>

\* C1: mul(a, b) is the Hamilton product (a.w*b.w - a.v.b.v,
\* a.w*b.v + b.w*a.v + a.v x b.v): it equals the product assembled from dot
\* and cross whenever the arithmetic is exact (integer components, as in
\* test_mul), and agrees with it to within rounding for every input.
C1_MulIsHamiltonProduct ==
    call = "mul" =>
        LET h == hamilton_product(args[1], args[2])
            s == FMul(len(args[1]), len(args[2]))
        IN  /\ (IsIntQuat(args[1]) /\ IsIntQuat(args[2]) => ret = h)
            /\ QCloseAt(ret, h, s)

\* mul was called on two integer quaternions whose vector parts are not
\* parallel, so that the cross product matters.
C1_Witness ==
    /\ call = "mul"
    /\ args = <<QInt(1, 2, -1, 3), QInt(3, 1, 1, 1)>>
    /\ ret = QInt(-1, 3, -1, 13)

\* C2: for a and b of equal length, q = rotation_from_to(a, b) maps a onto
\* b: every component of rotate_vector(q, a) is within EPSILON (relative to
\* the length) of that of b, whichever branch built q.
C2_RotationMapsAOntoB ==
    call = "rotation_from_to"
        /\ vec3_square_len(args[1]) = vec3_square_len(args[2]) =>
        \A i \in 1..3 :
            CloseAt(rotate_vector(ret, args[1])[i], args[2][i], vec3_len(args[2]))

\* What the code does instead in its antiparallel branch: q maps a onto -a,
\* whatever b is.
C2_AntiparallelMapsAOntoMinusA ==
    call = "rotation_from_to" /\ branch = "antiparallel" =>
        \A i \in 1..3 :
            CloseAt(rotate_vector(ret, args[1])[i], FNeg(args[1][i]),
                    vec3_len(args[1]))

\* C3: for a unit quaternion q, rotate_vector(q, v) has the length of v and
\* the scalar part it discards is 0, to within EPSILON relative to |v|.
C3_RotationPreservesNorm ==
    call = "rotate_vector" /\ IsUnitQuat(args[1]) =>
        LET l == vec3_len(args[2])
        IN  /\ CloseAt(vec3_len(ret), l, l)
            /\ CloseAt(rotate_product(args[1], args[2])[1], Zero, l)

\* rotate_vector was called with a unit quaternion of no special structure
\* and moved the vector.
C3_Witness ==
    /\ call = "rotate_vector"
    /\ args[1] = GenericUnit
    /\ args[2] = VInt(1, 2, 2)
    /\ ~CloseAt(ret[1], args[2][1], One)

\* C4: for a unit quaternion q, mul(q, conj(q)) is id() to within EPSILON,
\* and conj(q) is (q.w, -q.v).
C4_ConjIsInverse ==
    call = "conj" =>
        /\ ret[1] = args[1][1]
        /\ \A i \in 1..3 : ret[2][i] = FNeg(args[1][2][i])
        /\ (IsUnitQuat(args[1]) => QCloseAt(mul(args[1], ret), id, One))

\* conj was called on a unit quaternion with four nonzero components.
C4_Witness ==
    /\ call = "conj"
    /\ args[1] = GenericUnit
    /\ IsUnitQuat(args[1])

\* C5: id() is a two-sided identity of mul: mul(id(), q) = q = mul(q, id()),
\* exactly.
C5_IdIsIdentity ==
    /\ (call = "id" => ret = <<One, ZeroVec>>)
    /\ (call = "mul" =>
            /\ (args[1] = <<One, ZeroVec>> => ret = args[2])
            /\ (args[2] = <<One, ZeroVec>> => ret = args[1]))

\* mul(id(), q) was called with a q whose components are not integers.
C5_Witness ==
    /\ call = "mul"
    /\ args[1] = id
    /\ args[2] = GenericUnit
    /\ ret = GenericUnit

\* C6 as stated: mul(mul(a, b), c) == mul(a, mul(b, c)) for all a, b, c.
C6_Original ==
    call = "mul_mul" => ret = mul(args[1], mul(args[2], args[3]))

\* C6, amended: mul is associative up to rounding.  mul(mul(a, b), c) and
\* mul(a, mul(b, c)) are equal when the arithmetic is exact (integer
\* components) and otherwise agree to within EPSILON * |a||b||c|.
C6_AssociativeUpToRounding ==
    call = "mul_mul" =>
        LET r == mul(args[1], mul(args[2], args[3]))
            s == FMul(len(args[1]), FMul(len(args[2]), len(args[3])))
        IN  /\ (IsIntQuat(args[1]) /\ IsIntQuat(args[2]) /\ IsIntQuat(args[3])
                    => ret = r)
            /\ QCloseAt(ret, r, s)

\* Three quaternions were multiplied of which the first two do not commute.
C6_Witness ==
    /\ call = "mul_mul"
    /\ args = <<QInt(2, 1, 1, 1), QInt(1, 2, -1, 3), GenericUnit>>
    /\ mul(args[1], args[2]) # mul(args[2], args[1])

\* C7: for a unit axis and any angle, square_len(axis_angle(axis, theta))
\* is within EPSILON of 1, as test_axis_angle asserts.
C7_AxisAngleIsUnit ==
    call = "axis_angle" /\ IsUnitVec(args[1]) => Close(square_len(ret), One)

\* test_axis_angle's call: axis_angle(normalized([1,1,1]), PI).
C7_Witness ==
    /\ call = "axis_angle"
    /\ args = <<vec3_normalized(VInt(1, 1, 1)), PI>>

\* C8: rotation_from_to returns id() when d >= 1, and rotation_from_to(a, a)
\* is the identity rotation whichever branch is taken: its vector part is
\* zero and its scalar part within EPSILON of 1.
C8_FromToSelfIsId ==
    call = "rotation_from_to" =>
        /\ (branch = "parallel" => ret = <<One, ZeroVec>>)
        /\ (args[1] = args[2] =>
                /\ branch # "antiparallel"
                /\ ret[2] = ZeroVec
                /\ Close(ret[1], One))

\* rotation_from_to(a, a) was called with an a whose normalized dot product
\* with itself rounds below 1, so that the general branch is taken.
C8_Witness ==
    /\ call = "rotation_from_to"
    /\ args[1] = args[2]
    /\ branch = "general"

\* C9: in the antiparallel branch the axis before normalization is nonzero
\* and orthogonal to the normalized a; it is cross(X, a) unless that is
\* zero, which happens only for a on the X axis, and then cross(Y, a); the
\* result is the half turn about the normalized axis built with axis_angle.
C9_AntiparallelAxis ==
    call = "rotation_from_to" /\ branch = "antiparallel" =>
        LET a  == vec3_normalized(args[1])
            cx == vec3_cross(<<One, Zero, Zero>>, a)
            cy == vec3_cross(<<Zero, One, Zero>>, a)
            n  == vec3_normalized(axis)
        IN  /\ vec3_square_len(axis) # Zero
            /\ \A i \in 1..3 : ~IsNaN(n[i])
            /\ vec3_dot(axis, a) = Zero
            /\ (vec3_square_len(cx) # Zero => axis = cx)
            /\ (vec3_square_len(cx) = Zero =>
                    a[2] = Zero /\ a[3] = Zero /\ axis = cy)
            /\ ret \in axis_angle(n, PI)
            /\ Close(ret[1], Zero)
            /\ \A i \in 1..3 : Close(ret[2][i], n[i])

\* The antiparallel branch was taken with a on the X axis: the fallback to
\* cross(Y, a).
C9_Witness ==
    /\ call = "rotation_from_to"
    /\ branch = "antiparallel"
    /\ args[1] = VInt(1, 0, 0)
    /\ axis = VInt(0, 0, -1)

\* C10 as stated: square_len(mul(a, b)) == square_len(a) * square_len(b).
C10_Original ==
    call = "mul" =>
        square_len(ret) = FMul(square_len(args[1]), square_len(args[2]))

\* C10, amended: the squared norm is multiplicative under mul up to
\* rounding: exactly when the arithmetic is exact (integer components),
\* otherwise to within EPSILON relative to the product; the product of two
\* unit quaternions has a square_len within EPSILON of 1.
C10_NormMultiplicativeUpToRounding ==
    call = "mul" =>
        LET p == FMul(square_len(args[1]), square_len(args[2]))
        IN  /\ (IsIntQuat(args[1]) /\ IsIntQuat(args[2]) => square_len(ret) = p)
            /\ CloseAt(square_len(ret), p, p)
            /\ (IsUnitQuat(args[1]) /\ IsUnitQuat(args[2])
                    => Close(square_len(ret), One))

\* Two unit quaternions with inexact components were multiplied.
C10_Witness ==
    /\ call = "mul"
    /\ args = <<GenericUnit, <<P36, <<P48, P8, Zero>>>>>>
    /\ IsUnitQuat(args[1])
    /\ IsUnitQuat(args[2])
====
